---- MODULE Spec2Model ----
(***************************************************************************)
(* A model of simple-alto-parser: the document model (AltoTextParser,      *)
(* AltoFile, TextRegion, TextLine), the pattern rule engine                *)
(* (AltoPatternParser) and the tag reconstruction of PageFileParser.       *)
(*                                                                         *)
(* Python strings are sequences of one-character strings, Python objects   *)
(* are numbered cells of a heap (their identity is their number), and an   *)
(* exception is recorded in the variable raised.                           *)
(***************************************************************************)
EXTENDS Integers, Sequences, FiniteSets, TLC

\* ------------------------------------------------------------------ bounds

\* longest CONTENT of a String element of a loaded line
MaxTextLen == 2
\* most TextLine elements of one TextBlock
MaxLines == 1

\* the TextLine objects a behaviour can create (the cells of the heap)
HeapCells == {1, 2}
MaxElems == Cardinality(HeapCells)

\* ----------------------------------------------------------------- strings

Chars == {"a", "b"}

\* the CONTENT attributes a String element can carry
Contents == UNION {[1..n -> Chars] : n \in 1..MaxTextLen}

\* a TextLine element of the XML: the CONTENT of its String children
XmlLines == {<<c>> : c \in Contents}

Blank == {" ", "\n", "\r", "\t"}

RECURSIVE StripLeft(_)
StripLeft(s) == IF s # <<>> /\ Head(s) \in Blank THEN StripLeft(Tail(s)) ELSE s

RECURSIVE StripRight(_)
StripRight(s) ==
    IF s # <<>> /\ s[Len(s)] \in Blank THEN StripRight(SubSeq(s, 1, Len(s) - 1)) ELSE s

NotControl(c) == c \notin {"\n", "\r", "\t"}

\* AltoXMLElement.sanitize_text
sanitize_text(s) == StripRight(StripLeft(SelectSeq(s, NotControl)))

RECURSIVE JoinStrings(_)
JoinStrings(strings) ==
    IF strings = <<>> THEN <<>>
    ELSE <<" ">> \o Head(strings) \o JoinStrings(Tail(strings))

\* TextLine.__init__: text = "" ; text += " " + CONTENT for each String; sanitize
TextLineInit(xml_line) == sanitize_text(JoinStrings(xml_line))

\* ------------------------------------------------------- regular expressions
\* A pattern is an optional ^ anchor and a sequence of atoms; an atom matches
\* one character (a literal, or "." for any) and belongs to capture group g
\* (0: none).  Every pattern matches a non-empty substring.

Atom(c, g) == [c |-> c, g |-> g]

\* ^a
PatAnchA == [anch |-> TRUE, atoms |-> <<Atom("a", 0)>>]
\* (b)
PatB == [anch |-> FALSE, atoms |-> <<Atom("b", 1)>>]
\* (.)(b)
PatDotB == [anch |-> FALSE, atoms |-> <<Atom(".", 1), Atom("b", 2)>>]

Patterns == {PatAnchA, PatB, PatDotB}

MatchAt(p, s, i) ==
    /\ i + Len(p.atoms) - 1 <= Len(s)
    /\ p.anch => i = 1
    /\ \A j \in 1..Len(p.atoms) :
          p.atoms[j].c = "." \/ p.atoms[j].c = s[i + j - 1]

\* re.search(pattern, s): the start (1-based) of the leftmost match, 0 for None
SearchPos(p, s) ==
    LET hits == {i \in 1..Len(s) : MatchAt(p, s, i)}
    IN IF hits = {} THEN 0 ELSE CHOOSE i \in hits : \A k \in hits : i <= k

\* the match object of re.search: it keeps the string it was computed on
MatchObject(p, s) == [string |-> s, start |-> SearchPos(p, s)]

HasGroup(p, n) == \E j \in 1..Len(p.atoms) : p.atoms[j].g = n

\* match.group(n) for a group the pattern has
Group(p, m, n) ==
    LET js == {j \in 1..Len(p.atoms) : p.atoms[j].g = n}
        lo == CHOOSE j \in js : \A k \in js : j <= k
        hi == CHOOSE j \in js : \A k \in js : j >= k
    IN SubSeq(m.string, m.start + lo - 1, m.start + hi - 1)

RECURSIVE SubWithFrom(_, _, _, _)
SubWithFrom(p, literal, s, i) ==
    IF i > Len(s) THEN <<>>
    ELSE IF MatchAt(p, s, i) THEN literal \o SubWithFrom(p, literal, s, i + Len(p.atoms))
    ELSE <<s[i]>> \o SubWithFrom(p, literal, s, i + 1)

\* re.sub(pattern, literal, s)
ReSubWith(p, literal, s) == SubWithFrom(p, literal, s, 1)

\* a substitution that puts two blanks where the match was
ReSubBlanks(p, s) == ReSubWith(p, <<" ", " ">>, s)

RECURSIVE SubFrom(_, _, _)
SubFrom(p, s, i) ==
    IF i > Len(s) THEN <<>>
    ELSE IF MatchAt(p, s, i) THEN SubFrom(p, s, i + Len(p.atoms))
    ELSE <<s[i]>> \o SubFrom(p, s, i + 1)

\* re.sub(pattern, '', s): every non-overlapping match, left to right, deleted
ReSub(p, s) == SubFrom(p, s, 1)

\* the number of non-overlapping matches re.sub deletes
RECURSIVE CountFrom(_, _, _)
CountFrom(p, s, i) ==
    IF i > Len(s) THEN 0
    ELSE IF MatchAt(p, s, i) THEN 1 + CountFrom(p, s, i + Len(p.atoms))
    ELSE CountFrom(p, s, i + 1)

\* --------------------------------------------------------------------- state

VARIABLES
    \* the document and the rule engine
    files,          \* AltoTextParser.files: the AltoFile objects, in insertion order
    text_regions,   \* AltoFile.text_regions: the class attribute every AltoFile reads
    text,           \* TextLine.text of every TextLine object, by object number
    original_text,  \* the text each element had at creation
    parser_data,    \* the annotation map of every TextLine object
    matches,        \* AltoPatternParser.matches
    raised,         \* the exception the last call ended with, "none" if it returned
    scope,          \* the batch the engine is narrowed to, "all" if to none
    dictionary_matches,  \* the match set of the dictionary matcher
    \* a script of two rules, run in both orders on the same document
    script,         \* the two rules <<A, B>>, <<>> while none is chosen
    pc,             \* the run ("AB", "BA"), the rule of the run and its next call
    trace,          \* what the runs have produced so far
    \* one call of PageFileParser.extract_tags_of_region
    input_list,     \* the custom tag string of every line of the region
    text_lines,     \* the text of every line of the region
    tpc,            \* the loop the call is in and the index it has reached
    parsed_data,    \* the dict of every line processed by the first loop
    objects,        \* the `data` dict objects, by object number
    preliminary_tags_of_region,  \* the flat list of (references to) data dicts
    current_tag,    \* the open tag (an object number), 0 for None
    tags,           \* the output list, of (references to) data dicts
    warnings        \* the warnings logged so far

engineVars == <<files, text_regions, text, original_text, parser_data, matches, raised,
                scope, dictionary_matches>>
ruleVars == <<script, pc, trace>>
tagVars == <<input_list, text_lines, tpc, parsed_data, objects,
             preliminary_tags_of_region, current_tag, tags, warnings>>
vars == <<engineVars, ruleVars, tagVars>>

\* the files of the input directory, in the order add_files lists them
Directory == <<"f1.xml", "f2.xml">>
ExistingPaths == {Directory[i] : i \in DOMAIN Directory}
\* a path os.path.isfile rejects
MissingPath == "nofile.xml"

Keys == {"id", "loc"}
\* categorize is called with one key or with a list of keys
Categories ==
    {[is_list |-> FALSE, keys |-> <<"id">>], [is_list |-> TRUE, keys |-> <<"id", "loc">>]}
\* mark is called with a key and a constant
MarkNames == {"id"}
MarkValues == {<<"T">>}

Absent == <<"absent">>
None == <<"None">>
EmptyData == [k \in Keys |-> Absent]

\* ------------------------------------------------------------ document model

RECURSIVE Flatten(_)
Flatten(regions) ==
    IF regions = <<>> THEN <<>> ELSE Head(regions) \o Flatten(Tail(regions))

\* self.text_regions of the file at fidx: never assigned in __init__,
\* so it is the one list of the class, shared by every AltoFile
FileTextRegions(regions, fidx) == regions

\* a get_text_lines that leaves out the lines whose text is empty
GetTextLinesNonEmpty(regions, fidx) ==
    LET HasText(e) == text[e] # <<>>
    IN SelectSeq(Flatten(FileTextRegions(regions, fidx)), HasText)

\* AltoFile.get_text_lines
GetTextLines(regions, fidx) == Flatten(FileTextRegions(regions, fidx))

\* get_alto_files()[fidx].get_text_lines()[lidx], indices 0-based
ElementAt(regions, fidx, lidx) == GetTextLines(regions, fidx)[lidx + 1]

\* the element write the engine calls set_text
SetText(txt, e, s) == [txt EXCEPT ![e] = s]

\* what set_text does to the original_text of the elements: nothing
SetTextOriginal(orig, e, s) == orig

\* TextLine.add_parser_data(key, value): a later write to a key replaces the value
AddParserData(pd, e, key, value) == [pd EXCEPT ![e][key] = value]

\* no script chosen
IdlePc == [phase |-> "load", rule |-> 0, op |-> "none"]
NoTrace == [first_refs |-> {}, mid_data |-> <<>>, second_refs |-> {}, first_data |-> <<>>]
RulesIdle ==
    /\ script = <<>>
    /\ pc = IdlePc
    /\ trace = NoTrace

\* no region under reconstruction
TagsIdle ==
    /\ input_list = <<>>
    /\ text_lines = <<>>
    /\ tpc = [phase |-> "idle", idx |-> 0]
    /\ parsed_data = <<>>
    /\ objects = <<>>
    /\ preliminary_tags_of_region = <<>>
    /\ current_tag = 0
    /\ tags = <<>>
    /\ warnings = <<>>

\* a new AltoTextParser and a new AltoPatternParser
NoDocument ==
    /\ files = <<>>
    /\ text_regions = <<>>
    /\ text = <<>>
    /\ original_text = <<>>
    /\ parser_data = <<>>
    /\ matches = <<>>
    /\ raised = "none"
    /\ scope = "all"
    /\ dictionary_matches = <<>>

Init == NoDocument /\ RulesIdle /\ TagsIdle

\* an add_file that appends the file before its path is checked
AddFileAppendsFirst(path) ==
    /\ files' = Append(files, [file_path |-> path])
    /\ raised' = IF path \in ExistingPaths THEN "none" ELSE "ValueError"
    /\ UNCHANGED <<scope, dictionary_matches, text_regions, text, original_text, parser_data, matches>>

\* AltoTextParser.add_file
AddFile(path) ==
    /\ IF path \in ExistingPaths
       THEN /\ files' = Append(files, [file_path |-> path])
            /\ raised' = "none"
       ELSE /\ files' = files
            /\ raised' = "ValueError"
    /\ UNCHANGED <<scope, dictionary_matches, text_regions, text, original_text, parser_data, matches>>

\* the regions one parse of the files creates: file f holds one TextBlock of
\* sizes[f] lines, its TextLine objects numbered from `first` on
RECURSIVE NewRegions(_, _)
NewRegions(sizes, first) ==
    IF sizes = <<>> THEN <<>>
    ELSE <<[i \in 1..Head(sizes) |-> first + i - 1]>>
         \o NewRegions(Tail(sizes), first + Head(sizes))

RECURSIVE Sum(_)
Sum(sizes) == IF sizes = <<>> THEN 0 ELSE Head(sizes) + Sum(Tail(sizes))

\* AltoTextParser.parse_text: AltoFile.parse_text for every file
ParseText ==
    /\ files # <<>>
    /\ \E sizes \in [1..Len(files) -> 1..MaxLines] :
          /\ Len(text) + Sum(sizes) <= MaxElems
          /\ \E xml \in [1..Sum(sizes) -> XmlLines] :
                LET new == [i \in 1..Sum(sizes) |-> TextLineInit(xml[i])]
                IN /\ text' = text \o new
                   /\ original_text' = original_text \o new
                   /\ parser_data' = parser_data \o [i \in 1..Sum(sizes) |-> EmptyData]
                   /\ text_regions' = text_regions \o NewRegions(sizes, Len(text) + 1)
    /\ raised' = "none"
    /\ UNCHANGED <<files, scope, dictionary_matches, matches>>

\* ---------------------------------------------------------- pattern engine

\* a PatternMatch whose line_id is (lidx, fidx)
PatternMatchSwapped(pattern, fidx, lidx, m) ==
    [pattern |-> pattern, fidx |-> lidx, lidx |-> fidx, match |-> m]

\* PatternMatch.__init__: line_id = (fidx, lidx), 0-based
PatternMatch(pattern, fidx, lidx, m) ==
    [pattern |-> pattern, fidx |-> fidx, lidx |-> lidx, match |-> m]

\* a clear that keeps the matches
KeptMatches(ms) == ms

\* AltoPatternParser.clear: self.matches = []
ClearedMatches(ms) == <<>>

\* ---- variants of the engine's operators, used to test the properties below

\* a find that searches the text each element had when it was loaded
RECURSIVE ScanLoaded(_, _, _, _)
ScanLoaded(pattern, nfiles, regions, fidx) ==
    IF fidx >= nfiles THEN <<>>
    ELSE LET lines == Flatten(regions)
         IN SelectSeq([l \in 1..Len(lines) |->
                          PatternMatch(pattern, fidx, l - 1,
                                       MatchObject(pattern, original_text[lines[l]]))],
                      LAMBDA pm : pm.match.start # 0)
            \o ScanLoaded(pattern, nfiles, regions, fidx + 1)

FindMatchesLoaded(ms, pattern, nfiles, regions, txt) ==
    ScanLoaded(pattern, nfiles, regions, 0)

\* a remove that resolves the element as lines[lidx - 1]
RECURSIVE RemoveLoopOffByOne(_, _, _)
RemoveLoopOffByOne(txt, regions, ms) ==
    IF ms = <<>> THEN txt
    ELSE LET lines == Flatten(regions)
             e == lines[IF Head(ms).lidx = 0 THEN Len(lines) ELSE Head(ms).lidx]
         IN RemoveLoopOffByOne([txt EXCEPT ![e] = ReSub(Head(ms).pattern, txt[e])],
                               regions, Tail(ms))

\* a categorize that stores the whole match, match.group(0)
CategorizedWholeMatch(m) ==
    SubSeq(m.match.string, m.match.start, m.match.start + Len(m.pattern.atoms) - 1)

\* a categorize that leaves a key alone once it holds a value
RECURSIVE CategorizeLoopKeepFirst(_, _, _, _)
CategorizeLoopKeepFirst(pd, regions, ms, category) ==
    IF ms = <<>> THEN [pd |-> pd, raised |-> "none"]
    ELSE LET e == Flatten(regions)[Head(ms).lidx + 1]
             key == category.keys[1]
         IN CategorizeLoopKeepFirst(
               IF pd[e][key] = Absent
               THEN [pd EXCEPT ![e][key] = Group(Head(ms).pattern, Head(ms).match, 1)]
               ELSE pd,
               regions, Tail(ms), category)

\* a categorize that computes the value and does not store it
CategorizeLoopNoWrite(pd, regions, ms, category) == [pd |-> pd, raised |-> "none"]

\* a mark that stores the matched text in place of the caller's value
RECURSIVE MarkLoopMatchedText(_, _, _, _, _)
MarkLoopMatchedText(pd, regions, ms, name, value) ==
    IF ms = <<>> THEN pd
    ELSE MarkLoopMatchedText(
            [pd EXCEPT ![Flatten(regions)[Head(ms).lidx + 1]][name] =
                           CategorizedWholeMatch(Head(ms))],
            regions, Tail(ms), name, value)

\* the inner loop of find: the lines of one file, lidx counting from 0
RECURSIVE ScanLines(_, _, _, _, _)
ScanLines(pattern, txt, lines, fidx, lidx) ==
    IF lidx >= Len(lines) THEN <<>>
    ELSE LET m == MatchObject(pattern, txt[lines[lidx + 1]])
         IN (IF m.start # 0 THEN <<PatternMatch(pattern, fidx, lidx, m)>> ELSE <<>>)
            \o ScanLines(pattern, txt, lines, fidx, lidx + 1)

\* the outer loop of find: the files, fidx counting from 0
RECURSIVE ScanFiles(_, _, _, _, _)
ScanFiles(pattern, nfiles, regions, txt, fidx) ==
    IF fidx >= nfiles THEN <<>>
    ELSE ScanLines(pattern, txt, GetTextLines(regions, fidx), fidx, 0)
         \o ScanFiles(pattern, nfiles, regions, txt, fidx + 1)

\* AltoPatternParser.find: clear(), then one re.search per line of every file
FindMatches(ms, pattern, nfiles, regions, txt) ==
    ClearedMatches(ms) \o ScanFiles(pattern, nfiles, regions, txt, 0)

\* a categorize that looks at self.matches[0] before its loop
RECURSIVE CategorizeRest(_, _, _, _)
CategorizeRest(pd, regions, ms, category) ==
    IF ms = <<>> THEN [pd |-> pd, raised |-> "none"]
    ELSE LET m == Head(ms)
         IN IF ~HasGroup(m.pattern, 1) THEN [pd |-> pd, raised |-> "IndexError"]
            ELSE IF category.is_list THEN [pd |-> pd, raised |-> "TypeError"]
            ELSE CategorizeRest(
                    [pd EXCEPT ![Flatten(regions)[m.lidx + 1]][category.keys[1]] =
                                   Group(m.pattern, m.match, 1)],
                    regions, Tail(ms), category)

CategorizeLoopFirstMatch(pd, regions, ms, category) ==
    IF ms = <<>> THEN [pd |-> pd, raised |-> "IndexError"]
    ELSE CategorizeRest(pd, regions, ms, category)

\* a categorize that searches the text the line has now
CategorizedValueRecomputed(m) ==
    LET now == MatchObject(m.pattern, text[ElementAt(text_regions, m.fidx, m.lidx)])
    IN IF now.start = 0 THEN None ELSE Group(m.pattern, now, 1)

\* the value categorize stores: match.match.group(1)
CategorizedValue(m) == Group(m.pattern, m.match, 1)

\* AltoPatternParser.categorize: add_parser_data(category, match.match.group(1))
\* for every match.  group(1) raises IndexError when the pattern has no group;
\* the category is passed on as the one key of the write whatever its type,
\* and a list is no key of a map (TypeError).  The result is the annotation
\* maps as the loop left them and the exception it ended with.
RECURSIVE CategorizeLoop(_, _, _, _)
CategorizeLoop(pd, regions, ms, category) ==
    IF ms = <<>> THEN [pd |-> pd, raised |-> "none"]
    ELSE LET m == Head(ms)
         IN IF ~HasGroup(m.pattern, 1) THEN [pd |-> pd, raised |-> "IndexError"]
            ELSE IF category.is_list THEN [pd |-> pd, raised |-> "TypeError"]
            ELSE CategorizeLoop(
                    AddParserData(pd, ElementAt(regions, m.fidx, m.lidx),
                                  category.keys[1], CategorizedValue(m)),
                    regions, Tail(ms), category)

\* AltoPatternParser.mark: add_parser_data(name, value) for every match
RECURSIVE MarkLoop(_, _, _, _, _)
MarkLoop(pd, regions, ms, name, value) ==
    IF ms = <<>> THEN pd
    ELSE MarkLoop(AddParserData(pd, ElementAt(regions, Head(ms).fidx, Head(ms).lidx),
                                name, value),
                  regions, Tail(ms), name, value)

\* a remove that cuts the span of the stored match out of the line's text
RECURSIVE RemoveLoopCutsSpan(_, _, _)
RemoveLoopCutsSpan(txt, regions, ms) ==
    IF ms = <<>> THEN txt
    ELSE LET e == ElementAt(regions, Head(ms).fidx, Head(ms).lidx)
             t == txt[e]
             from == Head(ms).match.start
             width == Len(Head(ms).pattern.atoms)
             before == IF from - 1 < Len(t) THEN from - 1 ELSE Len(t)
             after == IF Len(t) > from + width - 1 THEN Len(t) - (from + width - 1) ELSE 0
             cut == [k \in 1..(before + after) |->
                        IF k <= before THEN t[k] ELSE t[k + width]]
         IN RemoveLoopCutsSpan(SetText(txt, e, cut), regions, Tail(ms))

\* AltoPatternParser.remove: for every match, the line's text becomes
\* re.sub(match.pattern, '', <the line's text now>)
RECURSIVE RemoveLoop(_, _, _)
RemoveLoop(txt, regions, ms) ==
    IF ms = <<>> THEN txt
    ELSE LET e == ElementAt(regions, Head(ms).fidx, Head(ms).lidx)
         IN RemoveLoop(SetText(txt, e, ReSub(Head(ms).pattern, txt[e])),
                       regions, Tail(ms))

\* a remove that assigns the new text to the original_text of the line too
RemoveLoopOverwritesOriginal(orig, txt, regions, ms) == RemoveLoop(txt, regions, ms)

\* AltoPatternParser.remove, the original_text of the elements: the only
\* write to a line is its set_text
RECURSIVE RemoveLoopOriginal(_, _, _, _)
RemoveLoopOriginal(orig, txt, regions, ms) ==
    IF ms = <<>> THEN orig
    ELSE LET e == ElementAt(regions, Head(ms).fidx, Head(ms).lidx)
             s == ReSub(Head(ms).pattern, txt[e])
         IN RemoveLoopOriginal(SetTextOriginal(orig, e, s), SetText(txt, e, s),
                               regions, Tail(ms))

Elements == 1..Len(text)

\* the positions (file_index, element_index) a find scans
Positions ==
    {pos \in (0..(Len(files) - 1)) \X (0..(MaxElems - 1)) :
        pos[2] < Len(GetTextLines(text_regions, pos[1]))}

\* the elements the pairs (file_index, element_index) of a match set denote
Referenced(regions, ms) ==
    {ElementAt(regions, ms[i].fidx, ms[i].lidx) : i \in 1..Len(ms)}

\* the matches of a match set that denote element e
MatchesOf(regions, ms, e) ==
    {i \in 1..Len(ms) : ElementAt(regions, ms[i].fidx, ms[i].lidx) = e}

\* every match of the match set was computed on the text its element has now
Fresh(regions, ms, txt) ==
    \A i \in 1..Len(ms) :
        ms[i].match = MatchObject(ms[i].pattern,
                                  txt[ElementAt(regions, ms[i].fidx, ms[i].lidx)])

Find(pattern) ==
    /\ UNCHANGED <<files, scope, dictionary_matches, text_regions, text, original_text, parser_data>>
    /\ raised' = "none"
    /\ matches' = FindMatches(matches, pattern, Len(files), text_regions, text)

Categorize(category) ==
    LET r == CategorizeLoop(parser_data, text_regions, matches, category)
    IN /\ UNCHANGED <<files, scope, dictionary_matches, text_regions, text, original_text, matches>>
       /\ raised' = r.raised
       /\ parser_data' = r.pd

Mark(name, value) ==
    /\ UNCHANGED <<files, scope, dictionary_matches, text_regions, text, original_text, matches>>
    /\ raised' = "none"
    /\ parser_data' = MarkLoop(parser_data, text_regions, matches, name, value)

\* a remove that empties the annotation map of every element it rewrites
RemoveRevalidating ==
    /\ UNCHANGED <<files, scope, dictionary_matches, text_regions, matches>>
    /\ raised' = "none"
    /\ text' = RemoveLoop(text, text_regions, matches)
    /\ original_text' = RemoveLoopOriginal(original_text, text, text_regions, matches)
    /\ parser_data' =
          [e \in DOMAIN parser_data |->
              IF \E i \in 1..Len(matches) :
                    ElementAt(text_regions, matches[i].fidx, matches[i].lidx) = e
              THEN EmptyData ELSE parser_data[e]]

Remove ==
    /\ UNCHANGED <<files, scope, dictionary_matches, text_regions, parser_data, matches>>
    /\ raised' = "none"
    /\ text' = RemoveLoop(text, text_regions, matches)
    /\ original_text' = RemoveLoopOriginal(original_text, text, text_regions, matches)

Clear ==
    /\ UNCHANGED <<files, scope, dictionary_matches, text_regions, text, original_text, parser_data>>
    /\ raised' = "none"
    /\ matches' = ClearedMatches(matches)

\* add_files: the next file of the directory
AddNextFile ==
    /\ Len(files) < Len(Directory)
    /\ AddFile(Directory[Len(files) + 1])

Next ==
    \/ AddNextFile /\ UNCHANGED <<ruleVars, tagVars>>
    \/ ParseText /\ UNCHANGED <<ruleVars, tagVars>>
    \/ (\E pattern \in Patterns : Find(pattern)) /\ UNCHANGED <<ruleVars, tagVars>>
    \/ (\E category \in Categories : Categorize(category)) /\ UNCHANGED <<ruleVars, tagVars>>
    \/ (\E name \in MarkNames, value \in MarkValues : Mark(name, value))
          /\ UNCHANGED <<ruleVars, tagVars>>
    \/ Remove /\ UNCHANGED <<ruleVars, tagVars>>
    \/ Clear /\ UNCHANGED <<ruleVars, tagVars>>

Spec == Init /\ [][Next]_vars

\* ------------------------------------------------- properties of the engine

\* C1: immediately after find(p) the match set holds exactly one match for
\* each element whose current text contains a match of p and none for the
\* others, and every match it holds is one this find computed (pattern p,
\* on the current text): nothing of an earlier find is left.
C1_FindOneMatchPerElement ==
    [][\A q \in Patterns :
          Find(q) =>
             /\ \A i \in 1..Len(matches') : matches'[i].pattern = q
             /\ Fresh(text_regions, matches', text)
             /\ \A e \in Elements :
                   Cardinality(MatchesOf(text_regions, matches', e))
                      = IF SearchPos(q, text[e]) # 0 THEN 1 ELSE 0]_vars

\* C2: a find(q) is evaluated against the text each element has when it runs,
\* that is the text the removes before it left: a position is in the new
\* match set exactly when the current text of its element contains a match of
\* q, and the match recorded is the one re.search finds in that current text.
C2_FindSeesCurrentText ==
    [][\A q \in Patterns :
          Find(q) =>
             /\ \A pos \in Positions :
                   (\E i \in 1..Len(matches') :
                        matches'[i].fidx = pos[1] /\ matches'[i].lidx = pos[2])
                   <=> SearchPos(q, text[ElementAt(text_regions, pos[1], pos[2])]) # 0
             /\ \A i \in 1..Len(matches') :
                   /\ <<matches'[i].fidx, matches'[i].lidx>> \in Positions
                   /\ matches'[i].match =
                         MatchObject(q, text[ElementAt(text_regions, matches'[i].fidx,
                                                       matches'[i].lidx)])]_vars

\* a find ran after a remove: the match set is computed on the current text,
\* and an element whose loaded text contained the pattern has been changed
\* and is not matched any more
C2_Witness ==
    /\ matches # <<>>
    /\ Fresh(text_regions, matches, text)
    /\ \E e \in Elements :
          /\ e \notin Referenced(text_regions, matches)
          /\ text[e] # original_text[e]
          /\ SearchPos(matches[1].pattern, original_text[e]) # 0
          /\ SearchPos(matches[1].pattern, text[e]) = 0

C4_RemoveIsOneGlobalReplace ==
    [][Remove =>
          \A i \in 1..Len(matches) :
             LET e == ElementAt(text_regions, matches[i].fidx, matches[i].lidx)
             IN text'[e] = ReSub(matches[i].pattern, text[e])]_vars

\* C5: categorize(key) with one string key stores, for every match of the
\* match set, capture group 1 of that match under key in the annotation map
\* of the matched element (the pattern having a group 1).
C5_CategorizeStoresGroupOne ==
    [][\A category \in Categories :
          (/\ ~category.is_list
           /\ Categorize(category)
           /\ \A i \in 1..Len(matches) : HasGroup(matches[i].pattern, 1)) =>
             \A i \in 1..Len(matches) :
                parser_data'[ElementAt(text_regions, matches[i].fidx,
                                       matches[i].lidx)][category.keys[1]]
                   = Group(matches[i].pattern, matches[i].match, 1)]_vars

\* a categorize('id') has acted on a match of (.)(b): the element holds group
\* 1, which is not the whole match
C5_Witness ==
    \E i \in 1..Len(matches) :
       LET e == ElementAt(text_regions, matches[i].fidx, matches[i].lidx)
       IN /\ matches[i].pattern = PatDotB
          /\ parser_data[e]["id"] = Group(PatDotB, matches[i].match, 1)
          /\ parser_data[e]["id"] # CategorizedWholeMatch(matches[i])

\* C6: categorize([k1..kN]) with a list of N keys stores, for every match of
\* the match set, capture group i under key ki for each i in 1..N (the
\* pattern having the groups 1..N).
C6_CategorizeDistributesGroups ==
    [][\A category \in Categories :
          (/\ category.is_list
           /\ Categorize(category)
           /\ \A i \in 1..Len(matches) : \A k \in 1..Len(category.keys) :
                 HasGroup(matches[i].pattern, k)) =>
             \A i \in 1..Len(matches) : \A k \in 1..Len(category.keys) :
                parser_data'[ElementAt(text_regions, matches[i].fidx,
                                       matches[i].lidx)][category.keys[k]]
                   = Group(matches[i].pattern, matches[i].match, k)]_vars

\* C7: mark(key, value) stores the caller's value under key in the annotation
\* map of every element the match set denotes, leaves the annotation map of
\* every other element as it was, and changes no element's text.
C7_MarkWritesConstantToMatched ==
    [][\A name \in MarkNames, value \in MarkValues :
          Mark(name, value) =>
             /\ \A e \in Elements :
                   IF e \in Referenced(text_regions, matches)
                   THEN parser_data'[e][name] = value
                   ELSE parser_data'[e] = parser_data[e]
             /\ text' = text]_vars

\* a mark has acted: a matched element carries the constant, which is not its
\* matched text, and an element outside the match set carries nothing
C7_Witness ==
    /\ \E i \in 1..Len(matches) :
          LET e == ElementAt(text_regions, matches[i].fidx, matches[i].lidx)
          IN /\ parser_data[e]["id"] \in MarkValues
             /\ text[e] = matches[i].match.string
    /\ \E e \in Elements :
          /\ e \notin Referenced(text_regions, matches)
          /\ parser_data[e] = EmptyData

\* ------------------------------------------------------------- rule scripts
\* A script of two rules, each find(pattern).categorize(key) with or without
\* a trailing remove(), is run on a loaded document as [A, B]; the document
\* is then loaded again and the script is run as [B, A].

\* the patterns of the rules: those with a capture group 1
RulePatterns == {PatB, PatDotB}
Rules == [pattern : RulePatterns, key : Keys, remove : BOOLEAN]

\* the order of the run, and the rule the run is at
Order == IF pc.phase = "AB" THEN script ELSE <<script[2], script[1]>>
CurrentRule == Order[pc.rule]

KeyCategory(key) == [is_list |-> FALSE, keys |-> <<key>>]

\* the position after the last call of the rule the run is at
AfterRule ==
    IF pc.rule = 1 THEN [pc EXCEPT !.rule = 2, !.op = "find"]
    ELSE IF pc.phase = "AB" THEN [pc EXCEPT !.op = "rerun"]
    ELSE [pc EXCEPT !.phase = "done", !.op = "none"]

StartScript ==
    /\ pc.phase = "load"
    /\ text # <<>>
    /\ \E A \in Rules, B \in Rules : script' = <<A, B>>
    /\ pc' = [phase |-> "AB", rule |-> 1, op |-> "find"]
    /\ UNCHANGED <<engineVars, trace, tagVars>>

RuleFind ==
    /\ pc.phase \in {"AB", "BA"}
    /\ pc.op = "find"
    /\ Find(CurrentRule.pattern)
    /\ trace' = IF pc.phase = "BA" THEN trace
                ELSE IF pc.rule = 1
                THEN [trace EXCEPT !.first_refs = Referenced(text_regions, matches')]
                ELSE [trace EXCEPT !.second_refs = Referenced(text_regions, matches')]
    /\ pc' = [pc EXCEPT !.op = "categorize"]
    /\ UNCHANGED <<script, tagVars>>

RuleCategorize ==
    /\ pc.phase \in {"AB", "BA"}
    /\ pc.op = "categorize"
    /\ Categorize(KeyCategory(CurrentRule.key))
    /\ trace' = IF pc.phase = "AB" /\ pc.rule = 1
                THEN [trace EXCEPT !.mid_data = parser_data']
                ELSE trace
    /\ pc' = IF CurrentRule.remove THEN [pc EXCEPT !.op = "remove"] ELSE AfterRule
    /\ UNCHANGED <<script, tagVars>>

RuleRemove ==
    /\ pc.phase \in {"AB", "BA"}
    /\ pc.op = "remove"
    /\ Remove
    /\ pc' = AfterRule
    /\ UNCHANGED <<script, trace, tagVars>>

\* the end of the run [A, B]: its annotations are kept aside and the same
\* files are parsed again, by a new parser in a new process
Rerun ==
    /\ pc.op = "rerun"
    /\ trace' = [trace EXCEPT !.first_data = parser_data]
    /\ text' = original_text
    /\ parser_data' = [e \in DOMAIN parser_data |-> EmptyData]
    /\ matches' = <<>>
    /\ raised' = "none"
    /\ pc' = [phase |-> "BA", rule |-> 1, op |-> "find"]
    /\ UNCHANGED <<files, scope, dictionary_matches, text_regions, original_text, script, tagVars>>

NextRules ==
    \/ pc.phase = "load" /\ AddNextFile /\ UNCHANGED <<ruleVars, tagVars>>
    \/ pc.phase = "load" /\ ParseText /\ UNCHANGED <<ruleVars, tagVars>>
    \/ StartScript
    \/ RuleFind
    \/ RuleCategorize
    \/ RuleRemove
    \/ Rerun

SpecRules == Init /\ [][NextRules]_vars

\* the second categorize of the run [A, B] has returned
SecondCategorizeDone == pc.phase = "AB" /\ pc.rule = 2 /\ pc.op \in {"remove", "rerun"}

\* C8: when find(p1).categorize(k) and then find(p2).categorize(k) both match
\* an element, the element's map afterwards holds under k the value p2
\* captured (a map holds one value per key, so the earlier one is gone).
C8_SecondCategorizeOverwrites ==
    (SecondCategorizeDone /\ script[1].key = script[2].key) =>
        \A i \in 1..Len(matches) :
           LET e == ElementAt(text_regions, matches[i].fidx, matches[i].lidx)
           IN e \in trace.first_refs =>
                 parser_data[e][script[2].key]
                    = Group(matches[i].pattern, matches[i].match, 1)

\* both rules matched an element, and the value the first stored under k is
\* not the value the element holds now
C8_Witness ==
    /\ SecondCategorizeDone
    /\ script[1].key = script[2].key
    /\ \E i \in 1..Len(matches) :
          LET e == ElementAt(text_regions, matches[i].fidx, matches[i].lidx)
          IN /\ e \in trace.first_refs
             /\ trace.mid_data[e][script[2].key] # Absent
             /\ trace.mid_data[e][script[2].key] # parser_data[e][script[2].key]
             /\ parser_data[e][script[2].key]
                   = Group(matches[i].pattern, matches[i].match, 1)

\* both rules end with remove() and write different keys
RemovingRules ==
    /\ pc.phase = "done"
    /\ script[1].remove /\ script[2].remove
    /\ script[1].key # script[2].key

\* A's remove changed text B's find depends on: an element whose loaded text
\* contains B's pattern was not matched by B's find in the run [A, B]
RemoveHidFromSecond ==
    \E e \in 1..Len(text) :
       /\ SearchPos(script[2].pattern, original_text[e]) # 0
       /\ e \notin trace.second_refs

\* C9: rule application is not commutative: whenever A's remove() changes
\* text that B's find() depends on, the run [A, B] and the run [B, A] of the
\* same document end with different annotations (and such runs exist, see
\* the witness).
C9_OrderChangesAnnotations ==
    (RemovingRules /\ RemoveHidFromSecond) => parser_data # trace.first_data

\* a document and two rules whose two orders end with different annotations
C9_Witness ==
    /\ RemovingRules
    /\ RemoveHidFromSecond
    /\ parser_data # trace.first_data
    /\ \E e \in 1..Len(text) :
          /\ parser_data[e][script[2].key] # Absent
          /\ trace.first_data[e][script[2].key] = Absent

\* -------------------------------------------------------- tag reconstruction
\* One call of PageFileParser.extract_tags_of_region(input_list, text_lines).
\* The custom attribute of a line is given as the (name, properties) pairs its
\* text 'name {k:v; ...} ...' consists of, the property values as the strings
\* they are.  A Python dict is a record: has is the set of its keys, the other
\* fields are the values of the keys it has (and a fixed value otherwise).

\* most lines of a region
MaxRegionLines == 3

TagNames == {"Person", "Place"}

\* get_tag_type: tag_name.lower()
get_tag_type(tag_name) ==
    CASE tag_name = "Person" -> "person"
      [] tag_name = "Place" -> "place"
      [] OTHER -> tag_name

DigitStrings == <<"0", "1", "2", "3", "4", "5", "6", "7", "8", "9">>

\* int(s) for the decimal strings of the inputs
IntOf(s) == CHOOSE n \in 0..9 : DigitStrings[n + 1] = s

RawProps(has, offset, length) == [has |-> has, offset |-> offset, length |-> length]

\* the property lists of the inputs: the four offset/length pairs with the
\* continued marker, a tag that lies within its line, a tag without position
PropsSet ==
    {RawProps({"offset", "length", "continued"}, o, l) : o \in {"0", "1"}, l \in {"1", "2"}}
    \cup {RawProps({"offset", "length"}, "0", "1"), RawProps({"continued"}, "", "")}

Segments == [name : TagNames, props : PropsSet]

\* the custom attributes of the inputs: no tag, or one tag
CustomTags == {<<>>} \cup {<<seg>> : seg \in Segments}

Letters == <<"a", "b", "c", "d", "e", "f", "g", "h", "i", "j">>

\* the Unicode text of line i
LineContent(i) == <<Letters[2 * i - 1], Letters[2 * i]>>

\* line_content = "" ; line_content += " " + bit_content
LineText(i) == <<" ">> \o LineContent(i)

\* the value_dict of a 'name {...}' part: the values are strings
ValueDict(props) ==
    [has |-> props.has, type |-> "", offset |-> props.offset, length |-> props.length,
     line_length |-> 0, text |-> <<>>]

\* a parse_custom_tag whose dict keeps the last instance of a name only
AddEntryOverwrites(item_dict, name, value_dict) ==
    IF \E i \in DOMAIN item_dict : item_dict[i].name = name
    THEN LET i == CHOOSE i \in DOMAIN item_dict : item_dict[i].name = name
         IN [item_dict EXCEPT ![i] = [name |-> name, is_list |-> FALSE,
                                      dicts |-> <<value_dict>>]]
    ELSE Append(item_dict, [name |-> name, is_list |-> FALSE, dicts |-> <<value_dict>>])

\* parse_custom_tag, one match: a name seen before turns its entry into a list
AddEntry(item_dict, name, value_dict) ==
    IF \E i \in DOMAIN item_dict : item_dict[i].name = name
    THEN LET i == CHOOSE i \in DOMAIN item_dict : item_dict[i].name = name
         IN [item_dict EXCEPT ![i] = [name |-> name, is_list |-> TRUE,
                                      dicts |-> Append(@.dicts, value_dict)]]
    ELSE Append(item_dict, [name |-> name, is_list |-> FALSE, dicts |-> <<value_dict>>])

RECURSIVE ParseMatches(_, _)
ParseMatches(segs, item_dict) ==
    IF segs = <<>> THEN item_dict
    ELSE ParseMatches(Tail(segs),
                      AddEntry(item_dict, Head(segs).name, ValueDict(Head(segs).props)))

\* parse_custom_tag: the dict of a line, its keys in insertion order
parse_custom_tag(custom_tag) == ParseMatches(custom_tag, <<>>)

IsUsedKey(entry) == entry.name # "readingOrder"

\* remove_unused_keys
remove_unused_keys(item_dict) == SelectSeq(item_dict, IsUsedKey)

\* s[lo:hi] of Python, for 0 <= lo
Slice(s, lo, hi) == SubSeq(s, lo + 1, IF hi < Len(s) THEN hi ELSE Len(s))

\* an extract_from_textline that marks a line-ending fragment as the end of
\* a span and a line-starting fragment as its start
BoundaryMarkerSwapped(line_starter, line_ender) ==
    IF line_ender /\ ~line_starter THEN {"ends_tag"}
    ELSE IF line_starter /\ line_ender THEN {"continues_tag"}
    ELSE IF line_starter /\ ~line_ender THEN {"starts_tag"}
    ELSE {}

\* the marker extract_from_textline sets on a continued item
BoundaryMarker(line_starter, line_ender) ==
    IF line_ender /\ ~line_starter THEN {"starts_tag"}
    ELSE IF line_starter /\ line_ender THEN {"continues_tag"}
    ELSE IF line_starter /\ ~line_ender THEN {"ends_tag"}
    ELSE {}

\* an extract_from_textline that takes the text from offset on
extract_from_textline_unshifted(item, text_line) ==
    IF {"length", "offset"} \subseteq item.has
    THEN LET length == IntOf(item.length)
             offset == IntOf(item.offset)
             line_starter == (offset = 0)
             line_ender == (offset + length + 1 = Len(text_line))
             continued == "continued" \in item.has
         IN [item EXCEPT
               !.length = length,
               !.offset = offset,
               !.text = Slice(text_line, offset, offset + length),
               !.line_length = Len(text_line),
               !.has = ((@ \cup {"text", "line_length"}) \ {"continued"})
                          \cup (IF continued
                                THEN BoundaryMarker(line_starter, line_ender)
                                ELSE {})]
    ELSE item

\* an extract_from_textline whose line_ender compares offset + length with
\* the length of the line
extract_from_textline_to_line_end(item, text_line) ==
    IF {"length", "offset"} \subseteq item.has
    THEN LET length == IntOf(item.length)
             offset == IntOf(item.offset)
             line_starter == (offset = 0)
             line_ender == (offset + length = Len(text_line))
             continued == "continued" \in item.has
         IN [item EXCEPT
               !.length = length,
               !.offset = offset,
               !.text = Slice(text_line, offset + 1, offset + length + 1),
               !.line_length = Len(text_line),
               !.has = ((@ \cup {"text", "line_length"}) \ {"continued"})
                          \cup (IF continued
                                THEN BoundaryMarker(line_starter, line_ender)
                                ELSE {})]
    ELSE item

\* extract_from_textline
extract_from_textline(item, text_line) ==
    IF {"length", "offset"} \subseteq item.has
    THEN LET length == IntOf(item.length)
             offset == IntOf(item.offset)
             line_starter == (offset = 0)
             line_ender == (offset + length + 1 = Len(text_line))
             continued == "continued" \in item.has
         IN [item EXCEPT
               !.length = length,
               !.offset = offset,
               !.text = Slice(text_line, offset + 1, offset + length + 1),
               !.line_length = Len(text_line),
               !.has = ((@ \cup {"text", "line_length"}) \ {"continued"})
                          \cup (IF continued
                                THEN BoundaryMarker(line_starter, line_ender)
                                ELSE {})]
    ELSE item

\* the warning of extract_from_textline
ExtractWarnings(item, text_line) ==
    IF /\ {"length", "offset", "continued"} \subseteq item.has
       /\ BoundaryMarker(IntOf(item.offset) = 0,
                         IntOf(item.offset) + IntOf(item.length) + 1 = Len(text_line)) = {}
    THEN <<"continued tag neither starts nor ends the line">>
    ELSE <<>>

\* add_text_to_tags
add_text_to_tags(item_dict, text_line) ==
    [i \in DOMAIN item_dict |->
        [item_dict[i] EXCEPT
           !.dicts = [j \in DOMAIN @ |-> extract_from_textline(@[j], text_line)]]]

RECURSIVE ConcatAll(_)
ConcatAll(seqs) == IF seqs = <<>> THEN <<>> ELSE Head(seqs) \o ConcatAll(Tail(seqs))

\* the warnings add_text_to_tags logs for the dict of a line
ItemWarnings(item_dict, text_line) ==
    ConcatAll([i \in DOMAIN item_dict |->
                 ConcatAll([j \in DOMAIN item_dict[i].dicts |->
                              ExtractWarnings(item_dict[i].dicts[j], text_line)])])

\* data = {"type": self.get_tag_type(tag_name)}
NewData(tag_name) ==
    [has |-> {"type"}, type |-> get_tag_type(tag_name), offset |-> 0, length |-> 0,
     line_length |-> 0, text |-> <<>>]

\* data.update(d)
DictUpdate(data, d) ==
    [has |-> data.has \cup d.has,
     type |-> IF "type" \in d.has THEN d.type ELSE data.type,
     offset |-> IF "offset" \in d.has THEN d.offset ELSE data.offset,
     length |-> IF "length" \in d.has THEN d.length ELSE data.length,
     line_length |-> IF "line_length" \in d.has THEN d.line_length ELSE data.line_length,
     text |-> IF "text" \in d.has THEN d.text ELSE data.text]

RECURSIVE UpdateAll(_, _)
UpdateAll(data, dicts) ==
    IF dicts = <<>> THEN data ELSE UpdateAll(DictUpdate(data, Head(dicts)), Tail(dicts))

\* the one data object made for a tag_name of a line: updated with the dict of
\* the name, or with every dict of the name's list in turn
EntryObject(entry) == UpdateAll(NewData(entry.name), entry.dicts)

\* the references appended for a tag_name: the data object, once per dict
EntryRefs(entry, id) == [j \in 1..Len(entry.dicts) |-> id]

\* del tag["length"], del tag["offset"], del tag["line_length"], where present
Stripped(tag) ==
    [tag EXCEPT !.has = @ \ {"length", "offset", "line_length"},
                !.length = 0, !.offset = 0, !.line_length = 0]

MissingKeyWarnings(tag) ==
    (IF "length" \in tag.has THEN <<>> ELSE <<"tag without length">>)
    \o (IF "offset" \in tag.has THEN <<>> ELSE <<"tag without offset">>)

\* a merge that appends the fragment without the separating space
JoinFragmentNoSpace(open_text, fragment) == open_text \o fragment

\* current_tag["text"] += " " + tag["text"]
JoinFragment(open_text, fragment) == open_text \o <<" ">> \o fragment

\* a merge loop that puts the open tag into the output when another starts
MergeTagEmitsReplaced(objs, cur, out, id) ==
    LET stripped == [objs EXCEPT ![id] = Stripped(objs[id])]
        tag == stripped[id]
        warn == MissingKeyWarnings(objs[id])
    IN IF "starts_tag" \in tag.has
       THEN [objects |-> stripped, current_tag |-> id,
             tags |-> IF cur # 0 THEN Append(out, cur) ELSE out, warn |-> warn]
       ELSE IF "continues_tag" \in tag.has
       THEN IF cur # 0
            THEN [objects |-> [stripped EXCEPT ![cur].text = JoinFragment(@, tag.text)],
                  current_tag |-> cur, tags |-> out, warn |-> warn]
            ELSE [objects |-> stripped, current_tag |-> cur, tags |-> out,
                  warn |-> warn \o <<"continued without open tag">>]
       ELSE IF "ends_tag" \in tag.has
       THEN IF cur # 0
            THEN [objects |-> [stripped EXCEPT
                                 ![cur].text = JoinFragment(@, tag.text),
                                 ![cur].has = @ \ {"starts_tag"}],
                  current_tag |-> 0, tags |-> Append(out, cur), warn |-> warn]
            ELSE [objects |-> stripped, current_tag |-> cur, tags |-> out,
                  warn |-> warn \o <<"ended without open tag">>]
       ELSE [objects |-> stripped, current_tag |-> cur, tags |-> Append(out, id),
             warn |-> warn]

\* a merge loop that puts a continues_tag or ends_tag instance met while no
\* tag is open into the output
MergeTagKeepsDangling(objs, cur, out, id) ==
    LET stripped == [objs EXCEPT ![id] = Stripped(objs[id])]
        tag == stripped[id]
        warn == MissingKeyWarnings(objs[id])
    IN IF "starts_tag" \in tag.has
       THEN [objects |-> stripped, current_tag |-> id, tags |-> out, warn |-> warn]
       ELSE IF "continues_tag" \in tag.has /\ cur # 0
       THEN [objects |-> [stripped EXCEPT ![cur].text = JoinFragment(@, tag.text)],
             current_tag |-> cur, tags |-> out, warn |-> warn]
       ELSE IF "ends_tag" \in tag.has /\ cur # 0
       THEN [objects |-> [stripped EXCEPT
                            ![cur].text = JoinFragment(@, tag.text),
                            ![cur].has = @ \ {"starts_tag"}],
             current_tag |-> 0, tags |-> Append(out, cur), warn |-> warn]
       ELSE [objects |-> stripped, current_tag |-> cur, tags |-> Append(out, id),
             warn |-> warn]

\* one pass of the merge loop, for the tag object id: the heap, the open tag,
\* the output list and the warnings it leaves
MergeTag(objs, cur, out, id) ==
    LET stripped == [objs EXCEPT ![id] = Stripped(objs[id])]
        tag == stripped[id]
        warn == MissingKeyWarnings(objs[id])
    IN IF "starts_tag" \in tag.has
       THEN [objects |-> stripped, current_tag |-> id, tags |-> out, warn |-> warn]
       ELSE IF "continues_tag" \in tag.has
       THEN IF cur # 0
            THEN [objects |-> [stripped EXCEPT ![cur].text = JoinFragment(@, tag.text)],
                  current_tag |-> cur, tags |-> out, warn |-> warn]
            ELSE [objects |-> stripped, current_tag |-> cur, tags |-> out,
                  warn |-> warn \o <<"continued without open tag">>]
       ELSE IF "ends_tag" \in tag.has
       THEN IF cur # 0
            THEN [objects |-> [stripped EXCEPT
                                 ![cur].text = JoinFragment(@, tag.text),
                                 ![cur].has = @ \ {"starts_tag"}],
                  current_tag |-> 0, tags |-> Append(out, cur), warn |-> warn]
            ELSE [objects |-> stripped, current_tag |-> cur, tags |-> out,
                  warn |-> warn \o <<"ended without open tag">>]
       ELSE [objects |-> stripped, current_tag |-> cur, tags |-> Append(out, id),
             warn |-> warn]

\* the call: a region of 1..MaxRegionLines lines, each with its custom tags
InitTags ==
    /\ NoDocument
    /\ RulesIdle
    /\ \E n \in 1..MaxRegionLines :
          /\ input_list \in [1..n -> CustomTags]
          /\ text_lines = [i \in 1..n |-> LineText(i)]
    /\ tpc = [phase |-> "parse", idx |-> 0]
    /\ parsed_data = <<>>
    /\ objects = <<>>
    /\ preliminary_tags_of_region = <<>>
    /\ current_tag = 0
    /\ tags = <<>>
    /\ warnings = <<>>

\* the position after pass idx of a loop over n items
AfterPass(n, next_phase) ==
    IF tpc.idx + 1 < n THEN [tpc EXCEPT !.idx = @ + 1]
    ELSE [phase |-> next_phase, idx |-> 0]

\* a part of a property list is given as its key when it reads 'k:v', and
\* as itself when value.strip().split(':') does not give two strings
Splits(part) == part \notin {"flag", "a:b:c"}

\* parse_custom_tag: k, v = value.strip().split(':') raises ValueError for
\* a part that does not split in two
ParseError(custom_tag) ==
    IF \E i \in DOMAIN custom_tag : \E part \in custom_tag[i].props.has : ~Splits(part)
    THEN "ValueError" ELSE "none"

\* int(s) returns
IsDecimal(s) == \E n \in 0..9 : DigitStrings[n + 1] = s

\* extract_from_textline: int(item["length"]), int(item["offset"])
ExtractError(item) ==
    IF /\ {"length", "offset"} \subseteq item.has
       /\ ~(IsDecimal(item.length) /\ IsDecimal(item.offset))
    THEN "ValueError" ELSE "none"

\* the exception one pass of the first loop ends with, "none" if with none
ItemError(custom_tag) ==
    IF ParseError(custom_tag) # "none" THEN ParseError(custom_tag)
    ELSE LET raw == remove_unused_keys(parse_custom_tag(custom_tag))
         IN IF \E i \in DOMAIN raw : \E j \in DOMAIN raw[i].dicts :
                  ExtractError(raw[i].dicts[j]) # "none"
            THEN "ValueError" ELSE "none"

\* one pass of the first loop: parse_custom_tag, remove_unused_keys,
\* add_text_to_tags, parsed_data.append
ParseItem ==
    /\ tpc.phase = "parse"
    /\ ItemError(input_list[tpc.idx + 1]) = "none"
    /\ LET raw == remove_unused_keys(parse_custom_tag(input_list[tpc.idx + 1]))
           text_line == text_lines[tpc.idx + 1]
       IN /\ parsed_data' = Append(parsed_data, add_text_to_tags(raw, text_line))
          /\ warnings' = warnings \o ItemWarnings(raw, text_line)
    /\ tpc' = AfterPass(Len(input_list), "build")
    /\ UNCHANGED <<input_list, text_lines, objects, preliminary_tags_of_region,
                   current_tag, tags>>
    /\ UNCHANGED <<engineVars, ruleVars>>

\* one pass of the second loop: the data objects of a line's dict
BuildItem ==
    /\ tpc.phase = "build"
    /\ LET item == parsed_data[tpc.idx + 1]
       IN /\ objects' = objects \o [i \in 1..Len(item) |-> EntryObject(item[i])]
          /\ preliminary_tags_of_region' =
                preliminary_tags_of_region
                \o ConcatAll([i \in 1..Len(item) |-> EntryRefs(item[i], Len(objects) + i)])
    /\ tpc' = AfterPass(Len(parsed_data), "merge")
    /\ UNCHANGED <<input_list, text_lines, parsed_data, current_tag, tags, warnings>>
    /\ UNCHANGED <<engineVars, ruleVars>>

\* one pass of the merge loop
MergeStep ==
    /\ tpc.phase = "merge"
    /\ tpc.idx < Len(preliminary_tags_of_region)
    /\ LET r == MergeTag(objects, current_tag, tags,
                         preliminary_tags_of_region[tpc.idx + 1])
       IN /\ objects' = r.objects
          /\ current_tag' = r.current_tag
          /\ tags' = r.tags
          /\ warnings' = warnings \o r.warn
    /\ tpc' = [tpc EXCEPT !.idx = @ + 1]
    /\ UNCHANGED <<input_list, text_lines, parsed_data, preliminary_tags_of_region>>
    /\ UNCHANGED <<engineVars, ruleVars>>

\* return tags
Return ==
    /\ tpc.phase = "merge"
    /\ tpc.idx = Len(preliminary_tags_of_region)
    /\ tpc' = [phase |-> "done", idx |-> 0]
    /\ UNCHANGED <<input_list, text_lines, parsed_data, objects,
                   preliminary_tags_of_region, current_tag, tags, warnings>>
    /\ UNCHANGED <<engineVars, ruleVars>>

NextTags ==
    \/ ParseItem
    \/ BuildItem
    \/ MergeStep
    \/ Return

SpecTags == InitTags /\ [][NextTags]_vars

\* the line (1-based) whose dict the data object id was made from
RECURSIVE OriginFrom(_, _, _)
OriginFrom(items, line, id) ==
    IF items = <<>> THEN 0
    ELSE IF id <= Len(Head(items)) THEN line
    ELSE OriginFrom(Tail(items), line + 1, id - Len(Head(items)))

OriginOf(id) == OriginFrom(parsed_data, 1, id)

\* line i carries one tag instance
SingleInstance(i) == Len(input_list[i]) = 1
InstanceOf(i) == parsed_data[i][1].dicts[1]

\* the fragment of line i: the characters its offset and length select
Fragment(i) ==
    LET props == input_list[i][1].props
    IN Slice(text_lines[i], IntOf(props.offset) + 1,
             IntOf(props.offset) + IntOf(props.length) + 1)

\* lines i, i+1, i+2 yield a starts_tag, a continues_tag and an ends_tag
\* instance of one tag name
SpanOfThree(i) ==
    /\ i + 2 <= Len(input_list)
    /\ \A j \in i..(i + 2) : SingleInstance(j) /\ input_list[j][1].name = input_list[i][1].name
    /\ "starts_tag" \in InstanceOf(i).has
    /\ "continues_tag" \in InstanceOf(i + 1).has
    /\ "ends_tag" \in InstanceOf(i + 2).has

\* the entries of the output list made from the lines i..j
TagsFrom(i, j) == {k \in 1..Len(tags) : OriginOf(tags[k]) \in i..j}

\* C10: when three consecutive lines yield, in order, a starts_tag, a
\* continues_tag and an ends_tag instance of one tag name, the output holds
\* exactly one tag for them, and its text is the three fragments joined by
\* single spaces in line order.
C10_ThreeLineSpanMergesToOneTag ==
    tpc.phase = "done" =>
       \A i \in 1..Len(input_list) :
          SpanOfThree(i) =>
             \E k \in 1..Len(tags) :
                /\ TagsFrom(i, i + 2) = {k}
                /\ objects[tags[k]].text
                      = Fragment(i) \o <<" ">> \o Fragment(i + 1) \o <<" ">> \o Fragment(i + 2)

\* a region of three lines that merged: the output is the one tag 'b cd e'
C10_Witness ==
    /\ tpc.phase = "done"
    /\ SpanOfThree(1)
    /\ Len(tags) = 1
    /\ objects[tags[1]].text = <<"b", " ", "c", "d", " ", "e">>

\* ------------------------------------------------------ boundary arithmetic
\* extract_from_textline applied to one tag instance and one text_line, as
\* the first loop of extract_tags_of_region applies it: the text_line is the
\* string the function is given, of every length up to MaxLineLength, and
\* the offset and length are every pair of positions below that length.

\* longest text_line
MaxLineLength == 5

Capitals == <<"A", "B", "C", "D", "E", "F", "G", "H", "I", "J">>

\* the text_line of n characters: "A", "AB", "ABC", "ABCD", "ABCDE"
TextLineOf(n) == SubSeq(Capitals, 1, n)

PositionStrings == {DigitStrings[k + 1] : k \in 0..(MaxLineLength - 1)}

\* the instances: offset and length, with and without the continued marker
LineProps ==
    {RawProps(has, o, l) : has \in {{"offset", "length", "continued"}, {"offset", "length"}},
                           o \in PositionStrings, l \in PositionStrings}

\* the call with a region of one line that carries one tag instance
InitLine ==
    /\ NoDocument
    /\ RulesIdle
    /\ \E n \in 1..MaxLineLength : text_lines = <<TextLineOf(n)>>
    /\ \E seg \in [name : TagNames, props : LineProps] : input_list = << <<seg>> >>
    /\ tpc = [phase |-> "parse", idx |-> 0]
    /\ parsed_data = <<>>
    /\ objects = <<>>
    /\ preliminary_tags_of_region = <<>>
    /\ current_tag = 0
    /\ tags = <<>>
    /\ warnings = <<>>

SpecLine == InitLine /\ [][NextTags]_vars

\* the instance as the call was given it, and as extract_from_textline left it
GivenProps == input_list[1][1].props
Extracted == parsed_data[1][1].dicts[1]
Markers == Extracted.has \cap {"starts_tag", "continues_tag", "ends_tag"}

\* C11: an instance with offset, length and the continued marker is
\* starts_tag iff it ends the line without starting it, continues_tag iff it
\* starts and ends it, ends_tag iff it starts it without ending it, and has
\* no marker iff neither, where line_starter is offset = 0 and line_ender is
\* offset + length + 1 = line_length; it never has two markers; on a line of
\* five characters, offset 0 and length 4 give continues_tag.
C11_BoundaryClassification ==
    (parsed_data # <<>> /\ "continued" \in GivenProps.has) =>
       LET offset == IntOf(GivenProps.offset)
           length == IntOf(GivenProps.length)
           line_length == Len(text_lines[1])
           line_starter == (offset = 0)
           line_ender == (offset + length + 1 = line_length)
       IN /\ Extracted.line_length = line_length
          /\ "starts_tag" \in Markers <=> (~line_starter /\ line_ender)
          /\ "continues_tag" \in Markers <=> (line_starter /\ line_ender)
          /\ "ends_tag" \in Markers <=> (line_starter /\ ~line_ender)
          /\ Markers = {} <=> (~line_starter /\ ~line_ender)
          /\ Cardinality(Markers) <= 1
          /\ (line_length = 5 /\ offset = 0 /\ length = 4) => Markers = {"continues_tag"}

\* the line "ABCDE" with offset 0 and length 4 was classified continues_tag
C11_Witness ==
    /\ parsed_data # <<>>
    /\ text_lines = << <<"A", "B", "C", "D", "E">> >>
    /\ GivenProps = RawProps({"offset", "length", "continued"}, "0", "4")
    /\ Markers = {"continues_tag"}
    /\ Extracted.text = <<"B", "C", "D", "E">>

\* the call was given the line "ABCD" and an instance with offset 0, length 3
\* and the continued marker, and extract_from_textline has returned
LiteralCaseDone ==
    /\ parsed_data # <<>>
    /\ text_lines = << <<"A", "B", "C", "D">> >>
    /\ GivenProps = RawProps({"offset", "length", "continued"}, "0", "3")

NextTag == objects[preliminary_tags_of_region[tpc.idx + 1]]

\* the next pass takes a continues_tag or ends_tag instance while no tag is open
DanglingNext ==
    /\ tpc.phase = "merge"
    /\ tpc.idx < Len(preliminary_tags_of_region)
    /\ current_tag = 0
    /\ "starts_tag" \notin NextTag.has
    /\ NextTag.has \cap {"continues_tag", "ends_tag"} # {}

\* C13: a continues_tag or ends_tag instance processed while no tag is open
\* logs a warning, adds nothing to the output list and leaves no tag open.
C13_DanglingContinuationDropped ==
    [][(MergeStep /\ DanglingNext) =>
          /\ Len(warnings') = Len(warnings) + 1
          /\ warnings'[Len(warnings')] \in {"continued without open tag",
                                            "ended without open tag"}
          /\ tags' = tags
          /\ current_tag' = 0]_vars

\* the first line carried a continues_tag instance: a warning, no tag, the
\* call has returned with an empty output
C13_Witness ==
    /\ tpc.phase = "done"
    /\ Len(input_list) = 1
    /\ Len(preliminary_tags_of_region) = 1
    /\ "continues_tag" \in objects[preliminary_tags_of_region[1]].has
    /\ warnings = <<"continued without open tag">>
    /\ tags = <<>>
    /\ current_tag = 0

\* the entries of a list
Range(seq) == {seq[i] : i \in 1..Len(seq)}

\* C14: when the merge loop ends with a tag still open, the open tag is
\* logged and discarded: the call logs a warning for it and returns an
\* output list without it.
C14_UnterminatedSpanLoggedAndDiscarded ==
    [][(Return /\ current_tag # 0) =>
          /\ current_tag \notin Range(tags')
          /\ Len(warnings') > Len(warnings)]_vars

\* line i carries one instance with offset, length and the continued marker
\* that neither starts nor ends the line
Inconsistent(i) ==
    /\ SingleInstance(i)
    /\ {"offset", "length", "continued"} \subseteq input_list[i][1].props.has
    /\ LET offset == IntOf(input_list[i][1].props.offset)
           length == IntOf(input_list[i][1].props.length)
       IN /\ offset # 0
          /\ offset + length + 1 # Len(text_lines[i])

\* C15: an instance that carries the continued marker but neither starts
\* nor ends its line is dropped: the output list of the region holds no tag
\* made from it.
C15_InconsistentContinuationDropped ==
    tpc.phase = "done" =>
       \A i \in 1..Len(input_list) : Inconsistent(i) => TagsFrom(i, i) = {}

\* C16: the output list of a region is in the order in which the spans of
\* its tags opened (the line of the starts_tag instance for a merged tag,
\* its own line for a single-line tag), so that a single-line tag of a line
\* between the start and the end of a span comes after that span's tag.
C16_OutputInOpeningOrder ==
    tpc.phase = "done" =>
       \A k1, k2 \in 1..Len(tags) :
          k1 < k2 => OriginOf(tags[k1]) <= OriginOf(tags[k2])

\* ------------------------------------------------------ the engine with replace
\* replace(literal) is called by src/example_use.py and described as remove
\* with a literal in place of the empty string.

Literals == {<<"c", "c">>}

RECURSIVE ReplaceLoop(_, _, _, _)
ReplaceLoop(txt, regions, ms, literal) ==
    IF ms = <<>> THEN txt
    ELSE LET e == ElementAt(regions, Head(ms).fidx, Head(ms).lidx)
         IN ReplaceLoop(SetText(txt, e, ReSubWith(Head(ms).pattern, literal, txt[e])),
                        regions, Tail(ms), literal)

RECURSIVE ReplaceLoopOriginal(_, _, _, _, _)
ReplaceLoopOriginal(orig, txt, regions, ms, literal) ==
    IF ms = <<>> THEN orig
    ELSE LET e == ElementAt(regions, Head(ms).fidx, Head(ms).lidx)
             s == ReSubWith(Head(ms).pattern, literal, txt[e])
         IN ReplaceLoopOriginal(SetTextOriginal(orig, e, s), SetText(txt, e, s),
                                regions, Tail(ms), literal)

Replace(literal) ==
    /\ UNCHANGED <<files, scope, dictionary_matches, text_regions, parser_data, matches>>
    /\ raised' = "none"
    /\ text' = ReplaceLoop(text, text_regions, matches, literal)
    /\ original_text' = ReplaceLoopOriginal(original_text, text, text_regions, matches, literal)

NextReplace ==
    \/ Next
    \/ (\E literal \in Literals : Replace(literal)) /\ UNCHANGED <<ruleVars, tagVars>>

SpecReplace == Init /\ [][NextReplace]_vars

C18_NoStructuralDeletion ==
    [][/\ \A pos \in Positions :
             /\ pos[2] < Len(GetTextLines(text_regions, pos[1]))'
             /\ ElementAt(text_regions, pos[1], pos[2])'
                   = ElementAt(text_regions, pos[1], pos[2])
       /\ (files' = files /\ Len(text') = Len(text)) =>
             \A fidx \in 0..(Len(files) - 1) :
                GetTextLines(text_regions, fidx)' = GetTextLines(text_regions, fidx)]_vars

\* a remove has consumed the whole text of an element, and the element is
\* still at its place in the file
C18_Witness ==
    \E pos \in Positions :
       LET e == ElementAt(text_regions, pos[1], pos[2])
       IN /\ text[e] = <<>>
          /\ original_text[e] # <<>>
          /\ e = pos[2] + 1

\* C19: in a run of find, mark, categorize, remove and clear, no step makes
\* the text of an element longer, and only a remove changes it.
C19_TextNeverGrows ==
    [][\A e \in 1..Len(text) :
          /\ Len(text'[e]) <= Len(text[e])
          /\ text'[e] # text[e] => Remove]_vars

\* a remove has taken one character of the two an element was loaded with
C19_Witness ==
    \E e \in 1..Len(text) :
       /\ Len(original_text[e]) = 2
       /\ Len(text[e]) = 1
       /\ text[e] = <<original_text[e][1]>>

\* C20: clear() leaves the match set empty and the text and the annotations
\* of every element as they are, and a mark, a categorize or a remove
\* issued in the state it leaves changes nothing.
C20_ClearThenNothingChanges ==
    [][Clear =>
          /\ matches' = <<>>
          /\ text' = text
          /\ parser_data' = parser_data
          /\ RemoveLoop(text', text_regions', matches') = text'
          /\ \A name \in MarkNames, value \in MarkValues :
                MarkLoop(parser_data', text_regions', matches', name, value) = parser_data'
          /\ \A category \in Categories :
                CategorizeLoop(parser_data', text_regions', matches', category)
                   = [pd |-> parser_data', raised |-> "none"]]_vars

\* every element still has its text "ab" and holds an annotation, so every
\* find since its creation has matched: the match set is empty by a clear
C20_Witness ==
    /\ text # <<>>
    /\ matches = <<>>
    /\ \A e \in 1..Len(text) :
          /\ text[e] = <<"a", "b">>
          /\ original_text[e] = <<"a", "b">>
          /\ parser_data[e]["id"] # Absent

\* --------------------------------------------------------------- batches
\* batch(name) and all() are called by src/example_use_19XX.py; the batches
\* are those of its parser_config, the metadata of a file is the page its
\* file name gives (file_name_structure).

\* file.add_file_meta_data('page', match.group(idx)) for the file name
PageOf(path) == IF path = "f1.xml" THEN "22" ELSE "23"

BatchNames == {"bscc_index", "bscc_board"}

\* 'conditions' of a batch of parser_config['batches']: key and values
BatchConditions(name) ==
    IF name = "bscc_index" THEN {[key |-> "page", values |-> {"22"}]}
    ELSE {[key |-> "page", values |-> {"23", "24"}]}

\* the file satisfies every condition of the active scope
InScope(file, sc) ==
    \/ sc = "all"
    \/ \A cond \in BatchConditions(sc) : PageOf(file.file_path) \in cond.values

Batch(name) ==
    /\ scope' = name
    /\ raised' = "none"
    /\ UNCHANGED <<files, dictionary_matches, text_regions, text, original_text,
                   parser_data, matches>>

All ==
    /\ scope' = "all"
    /\ raised' = "none"
    /\ UNCHANGED <<files, dictionary_matches, text_regions, text, original_text,
                   parser_data, matches>>

NextBatch ==
    \/ Next
    \/ (\E name \in BatchNames : Batch(name)) /\ UNCHANGED <<ruleVars, tagVars>>
    \/ All /\ UNCHANGED <<ruleVars, tagVars>>

SpecBatch == Init /\ [][NextBatch]_vars

\* the pairs (file_index, element_index) a find of the pattern has to report
\* under the scope: the matching elements of the files in scope
ScopedHits(pattern, sc) ==
    {pos \in Positions :
        /\ InScope(files[pos[1] + 1], sc)
        /\ SearchPos(pattern, text[ElementAt(text_regions, pos[1], pos[2])]) # 0}

\* C21: a find matches the elements of the files in the active scope and no
\* others: after batch(name) the files that satisfy the batch's conditions,
\* after all() (and before any batch) every file; the scope changes only in
\* batch() and all().
C21_FindKeepsToScope ==
    [][/\ \A pattern \in Patterns :
             Find(pattern) =>
                {<<matches'[i].fidx, matches'[i].lidx>> : i \in 1..Len(matches')}
                   = ScopedHits(pattern, scope)
       /\ scope' # scope => (All \/ \E name \in BatchNames : Batch(name))]_vars

\* ------------------------------------------------------- the engine's errors
\* C22: categorize, mark and remove called while the match set is empty
\* raise nothing and leave the text and the annotations of every element as
\* they are.
C22_EmptyMatchSetNoOp ==
    [][(/\ matches = <<>>
        /\ \/ Remove
           \/ \E name \in MarkNames, value \in MarkValues : Mark(name, value)
           \/ \E category \in Categories : Categorize(category)) =>
          /\ raised' = "none"
          /\ text' = text
          /\ parser_data' = parser_data]_vars

\* a loaded document with an empty match set that is as it was loaded,
\* after a call that raised nothing
C22_Witness ==
    /\ Len(text) = MaxElems
    /\ matches = <<>>
    /\ raised = "none"
    /\ text = original_text
    /\ \A e \in 1..Len(text) : parser_data[e] = EmptyData

\* C23: when categorize asks for a group the pattern of the matches does not
\* have, no error is raised and the key keeps, in every matched element, the
\* value it held.
C23_MissingGroupNoOp ==
    [][\A category \in Categories :
          (/\ Categorize(category)
           /\ ~category.is_list
           /\ \E i \in 1..Len(matches) : ~HasGroup(matches[i].pattern, 1)) =>
             /\ raised' = "none"
             /\ \A i \in 1..Len(matches) :
                   ~HasGroup(matches[i].pattern, 1) =>
                      LET e == ElementAt(text_regions, matches[i].fidx, matches[i].lidx)
                      IN parser_data'[e][category.keys[1]]
                            = parser_data[e][category.keys[1]]]_vars

\* ------------------------------------------------------------ raw tag strings
\* The call for regions whose custom attributes are any strings of the shape
\* 'name {...}': a length that is no number and a part without a colon
\* included.

RawPropsSet ==
    PropsSet \cup {RawProps({"offset", "length"}, "0", "x"),
                   RawProps({"offset", "length", "flag"}, "0", "1")}

RawCustomTags == {<<>>} \cup {<<seg>> : seg \in [name : TagNames, props : RawPropsSet]}

InitRaw ==
    /\ NoDocument
    /\ RulesIdle
    /\ \E n \in 1..MaxRegionLines :
          /\ input_list \in [1..n -> RawCustomTags]
          /\ text_lines = [i \in 1..n |-> LineText(i)]
    /\ tpc = [phase |-> "parse", idx |-> 0]
    /\ parsed_data = <<>>
    /\ objects = <<>>
    /\ preliminary_tags_of_region = <<>>
    /\ current_tag = 0
    /\ tags = <<>>
    /\ warnings = <<>>

\* a pass of the first loop that raises: the call ends with the exception
ParseItemRaises ==
    /\ tpc.phase = "parse"
    /\ ItemError(input_list[tpc.idx + 1]) # "none"
    /\ tpc' = [phase |-> ItemError(input_list[tpc.idx + 1]), idx |-> tpc.idx]
    /\ UNCHANGED <<input_list, text_lines, parsed_data, objects,
                   preliminary_tags_of_region, current_tag, tags, warnings>>
    /\ UNCHANGED <<engineVars, ruleVars>>

NextRaw ==
    \/ NextTags
    \/ ParseItemRaises

SpecRaw == InitRaw /\ [][NextRaw]_vars

\* C24: whatever the tag strings and the texts of the lines of a region,
\* extract_tags_of_region raises nothing: the call is in one of its loops or
\* has returned its list of tags.
C24_ReconstructionNeverRaises ==
    tpc.phase \in {"parse", "build", "merge", "done"}

\* C25: each inconsistency of a reconstruction is logged: the pass of the
\* first loop over a continued instance that neither starts nor ends its
\* line, the pass of the merge loop over a continues_tag or ends_tag
\* instance while no tag is open, and the return while a tag is still open
\* each add a warning.
C25_EveryInconsistencyLogged ==
    [][/\ (ParseItem /\ Inconsistent(tpc.idx + 1)) => Len(warnings') > Len(warnings)
       /\ (MergeStep /\ DanglingNext) => Len(warnings') > Len(warnings)
       /\ (Return /\ current_tag # 0) => Len(warnings') > Len(warnings)]_vars

\* ------------------------------------------------------------ loading errors
\* add_file called with a path that is no file, at any time
AddMissingFile == AddFile(MissingPath)

NextLoad ==
    \/ Next
    \/ AddMissingFile /\ UNCHANGED <<ruleVars, tagVars>>

SpecLoad == Init /\ [][NextLoad]_vars

\* C26: add_file with a path that is no existing file ends with an error
\* and leaves the file list of the parser as it was.
C26_MissingFileRejected ==
    [][\A path \in {MissingPath} \cup ExistingPaths :
          (AddFile(path) /\ path \notin ExistingPaths) =>
             /\ raised' # "none"
             /\ files' = files]_vars

\* add_file has failed on a parser that holds a file: the file is still the
\* only one
C26_Witness ==
    /\ raised = "ValueError"
    /\ files = <<[file_path |-> "f1.xml"]>>

\* ------------------------------------------------------- dictionary matcher
\* AltoDictionaryParser is used by src/example_use_1923.py: two term lists
\* are loaded, titles and locations, and find is called with restrict_to.

\* the entries of the loaded term lists: a location whose text lies within a
\* title, and a location with the text of a title
DictionaryEntries ==
    <<[entry |-> <<"a", "b">>, category |-> "title", id |-> 1],
      [entry |-> <<"b">>, category |-> "location", id |-> 2],
      [entry |-> <<"a", "b">>, category |-> "location", id |-> 3],
      [entry |-> <<"a">>, category |-> "title", id |-> 4]>>

EntryCategories == {"title", "location"}
NoRestriction == "any"

\* sub occurs in s
Contains(s, sub) ==
    \E i \in 1..(Len(s) - Len(sub) + 1) : SubSeq(s, i, i + Len(sub) - 1) = sub

\* strict: the text is the entry; otherwise the entry occurs in the text
EntryMatches(strict, entry, s) ==
    IF strict THEN s = entry.entry ELSE Contains(s, entry.entry)

\* a find that looks the text up in every entry, whatever restrict_to
EntryHitsAnyCategory(strict, restrict_to, s) ==
    SelectSeq([k \in 1..Len(DictionaryEntries) |-> k],
              LAMBDA k : EntryMatches(strict, DictionaryEntries[k], s))

\* the entries find matches a text against, by their place in the lists
EntryHits(strict, restrict_to, s) ==
    SelectSeq([k \in 1..Len(DictionaryEntries) |-> k],
              LAMBDA k : /\ restrict_to \in {NoRestriction, DictionaryEntries[k].category}
                         /\ EntryMatches(strict, DictionaryEntries[k], s))

RECURSIVE DictScanLines(_, _, _, _, _, _)
DictScanLines(strict, restrict_to, txt, lines, fidx, lidx) ==
    IF lidx >= Len(lines) THEN <<>>
    ELSE LET hits == EntryHits(strict, restrict_to, txt[lines[lidx + 1]])
         IN [h \in 1..Len(hits) |-> [entry |-> hits[h], fidx |-> fidx, lidx |-> lidx]]
            \o DictScanLines(strict, restrict_to, txt, lines, fidx, lidx + 1)

RECURSIVE DictScanFiles(_, _, _, _, _, _)
DictScanFiles(strict, restrict_to, nfiles, regions, txt, fidx) ==
    IF fidx >= nfiles THEN <<>>
    ELSE DictScanLines(strict, restrict_to, txt, GetTextLines(regions, fidx), fidx, 0)
         \o DictScanFiles(strict, restrict_to, nfiles, regions, txt, fidx + 1)

\* AltoDictionaryParser.find(strict, restrict_to)
DictFind(strict, restrict_to) ==
    /\ dictionary_matches' = DictScanFiles(strict, restrict_to, Len(files), text_regions, text, 0)
    /\ raised' = "none"
    /\ UNCHANGED <<files, scope, text_regions, text, original_text, parser_data, matches>>

NextDict ==
    \/ AddNextFile /\ UNCHANGED <<ruleVars, tagVars>>
    \/ ParseText /\ UNCHANGED <<ruleVars, tagVars>>
    \/ (\E strict \in BOOLEAN, restrict_to \in EntryCategories \cup {NoRestriction} :
           DictFind(strict, restrict_to)) /\ UNCHANGED <<ruleVars, tagVars>>

SpecDict == Init /\ [][NextDict]_vars

\* C27: with titles and locations loaded, the match set of
\* find(restrict_to='title') holds no match of a location entry, whether or
\* not the text of a location entry occurs in the text of an element.
C27_RestrictedFindSkipsLocations ==
    [][\A strict \in BOOLEAN :
          DictFind(strict, "title") =>
             \A i \in 1..Len(dictionary_matches') :
                DictionaryEntries[dictionary_matches'[i].entry].category # "location"]_vars

\* an element with the text "ab", which is the text of a location entry and
\* contains that of another, is matched, and only by title entries
C27_Witness ==
    /\ dictionary_matches # <<>>
    /\ \A i \in 1..Len(dictionary_matches) :
          /\ DictionaryEntries[dictionary_matches[i].entry].category = "title"
          /\ text[ElementAt(text_regions, dictionary_matches[i].fidx,
                            dictionary_matches[i].lidx)] = <<"a", "b">>

\* ------------------------------------------------------- ownership and order

\* the files that hold element e in their element sequence
HoldersOf(e) ==
    {f \in 0..(Len(files) - 1) :
        \E l \in 1..Len(GetTextLines(text_regions, f)) :
           GetTextLines(text_regions, f)[l] = e}

\* C28: no element is in the element sequence of two files, and no element
\* is referenced by two matches of a match set.
C28_PerFileOwnership ==
    /\ \A e \in 1..Len(text) : Cardinality(HoldersOf(e)) <= 1
    /\ \A i, j \in 1..Len(matches) :
          ElementAt(text_regions, matches[i].fidx, matches[i].lidx)
             = ElementAt(text_regions, matches[j].fidx, matches[j].lidx) => i = j

\* match i stands before match j in the order of the scan
ScannedBefore(mi, mj) ==
    \/ mi.fidx < mj.fidx
    \/ mi.fidx = mj.fidx /\ mi.lidx < mj.lidx

\* C29: the match set find leaves is in the order of the scan, files in the
\* order they were added and elements in the order of the file's sequence,
\* and the indices of every match are the 0-based positions of a file of the
\* document and of an element of that file's sequence that the pattern matches.
C29_ScanOrderAndIndices ==
    [][\A pattern \in Patterns :
          Find(pattern) =>
             /\ \A i \in 1..Len(matches') :
                   /\ matches'[i].fidx \in 0..(Len(files) - 1)
                   /\ matches'[i].lidx \in
                         0..(Len(GetTextLines(text_regions, matches'[i].fidx)) - 1)
                   /\ MatchObject(pattern,
                         text[ElementAt(text_regions, matches'[i].fidx,
                                        matches'[i].lidx)]).start # 0
             /\ \A i, j \in 1..Len(matches') :
                   i < j => ScannedBefore(matches'[i], matches'[j])
             /\ \A f \in 0..(Len(files) - 1) :
                   \A l \in 0..(Len(GetTextLines(text_regions, f)) - 1) :
                      MatchObject(pattern, text[ElementAt(text_regions, f, l)]).start # 0
                         => \E i \in 1..Len(matches') :
                               matches'[i].fidx = f /\ matches'[i].lidx = l]_vars

\* a match set over two files with two matches in the first of them
C29_Witness ==
    /\ Len(files) = 2
    /\ Len(matches) >= 3
    /\ matches[1].fidx = 0 /\ matches[1].lidx = 0
    /\ matches[2].fidx = 0 /\ matches[2].lidx = 1
    /\ matches[3].fidx = 1 /\ matches[3].lidx = 0

\* C30: remove and find leave the annotation map of every element as it is,
\* whatever has become of the text the values were captured from.
C30_AnnotationsNotRevalidated ==
    [][(Remove \/ \E pattern \in Patterns : Find(pattern))
          => parser_data' = parser_data]_vars

\* an element keeps a value captured from its text that a remove has since
\* taken out of the text
C30_Witness ==
    \E e \in 1..Len(text), k \in Keys :
       /\ parser_data[e][k] \notin {Absent, None, <<>>}
       /\ Contains(original_text[e], parser_data[e][k])
       /\ ~Contains(text[e], parser_data[e][k])
       /\ raised = "none"

\* ------------------------------------------------- several instances on a line
\* A region whose first line carries up to MaxInstances tag instances, after
\* the readingOrder entry or without one, and whose second line, if there is
\* one, carries at most one.

\* most tag instances of one line
MaxInstances == 2

\* the property lists of a line with several instances: the offset/length
\* pairs with the continued marker, and two tags that lie within the line
InstanceProps ==
    {RawProps({"offset", "length", "continued"}, o, l) : o \in {"0", "1"}, l \in {"1", "2"}}
    \cup {RawProps({"offset", "length"}, "0", "1"), RawProps({"offset", "length"}, "1", "1")}

InstanceSegments == [name : TagNames, props : InstanceProps]

\* readingOrder {index:0;}
ReadingOrder == [name |-> "readingOrder", props |-> RawProps({"index"}, "", "")]

InstanceLists == UNION {[1..n -> InstanceSegments] : n \in 0..MaxInstances}

FirstLineTags == InstanceLists \cup {<<ReadingOrder>> \o segs : segs \in InstanceLists}

InitInstances ==
    /\ NoDocument
    /\ RulesIdle
    /\ \E first \in FirstLineTags :
          \/ input_list = <<first>>
          \/ \E second \in CustomTags : input_list = <<first, second>>
    /\ text_lines = [i \in 1..Len(input_list) |-> LineText(i)]
    /\ tpc = [phase |-> "parse", idx |-> 0]
    /\ parsed_data = <<>>
    /\ objects = <<>>
    /\ preliminary_tags_of_region = <<>>
    /\ current_tag = 0
    /\ tags = <<>>
    /\ warnings = <<>>

SpecInstances == InitInstances /\ [][NextTags]_vars

BookkeepingKeys ==
    {"length", "offset", "line_length", "continued", "starts_tag", "continues_tag", "ends_tag"}

\* C31: no tag of the list extract_tags_of_region returns has one of the keys
\* length, offset, line_length, continued, starts_tag, continues_tag, ends_tag.
C31_BookkeepingKeysStripped ==
    tpc.phase = "done" =>
       \A k \in 1..Len(tags) : objects[tags[k]].has \cap BookkeepingKeys = {}

\* ------------------------------------------------------------ the tagged text

\* the characters of s at the 0-based positions lo..(hi - 1) that s has
CharsAt(s, lo, hi) ==
    LET last == IF hi < Len(s) THEN hi ELSE Len(s)
    IN [k \in 1..(IF last > lo THEN last - lo ELSE 0) |-> s[lo + k]]

\* C32: the text of an instance with offset and length is the characters of
\* the line's text at the 0-based positions offset+1 .. offset+length, as far
\* as the line has them, and its line_length is the length of that text.
C32_TaggedTextSlice ==
    parsed_data # <<>> =>
       LET offset == IntOf(GivenProps.offset)
           length == IntOf(GivenProps.length)
       IN /\ {"text", "line_length"} \subseteq Extracted.has
          /\ Extracted.text = CharsAt(text_lines[1], offset + 1, offset + length + 1)
          /\ Extracted.line_length = Len(text_lines[1])

\* offset 2 and length 4 on the line 'ABCD': the text is 'D', cut at the end
C32_Witness ==
    /\ parsed_data # <<>>
    /\ text_lines[1] = <<"A", "B", "C", "D">>
    /\ GivenProps.offset = "2" /\ GivenProps.length = "4"
    /\ Extracted.text = <<"D">>
    /\ Extracted.line_length = 4

\* ------------------------------------------------------ the dict of a line

\* the instances of a name in the custom attribute of the first line
InstancesOf(name) ==
    LET Named(seg) == seg.name = name IN SelectSeq(input_list[1], Named)

\* the entries of a name in the dict made of the first line
EntriesOf(name) ==
    LET Named(entry) == entry.name = name IN SelectSeq(parsed_data[1], Named)

\* the properties map d was made of the instance seg
MadeOf(d, seg) ==
    /\ d.offset = IntOf(seg.props.offset)
    /\ d.length = IntOf(seg.props.length)
    /\ d.text = CharsAt(text_lines[1], d.offset + 1, d.offset + d.length + 1)

\* C33: in the dict made of a line, a name that occurs once in the raw tag
\* string has one properties map, a name that occurs k >= 2 times has the
\* list of its k properties maps in the order of the string, a name that does
\* not occur has no entry, and readingOrder has none.
C33_TagStringParsing ==
    parsed_data # <<>> =>
       /\ EntriesOf("readingOrder") = <<>>
       /\ \A name \in TagNames :
             LET given == InstancesOf(name)
                 entries == EntriesOf(name)
             IN IF given = <<>> THEN entries = <<>>
                ELSE /\ Len(entries) = 1
                     /\ entries[1].is_list = (Len(given) >= 2)
                     /\ Len(entries[1].dicts) = Len(given)
                     /\ \A j \in 1..Len(given) : MadeOf(entries[1].dicts[j], given[j])

\* 'readingOrder {...} Person {offset:1; length:1;} Person {offset:0; length:1;}':
\* the dict has the one key Person, with the list of the maps of 'b' and 'a'
C33_Witness ==
    /\ parsed_data # <<>>
    /\ Len(input_list[1]) = 3
    /\ input_list[1][1] = ReadingOrder
    /\ Len(parsed_data[1]) = 1
    /\ parsed_data[1][1].name = "Person"
    /\ parsed_data[1][1].is_list
    /\ Len(parsed_data[1][1].dicts) = 2
    /\ parsed_data[1][1].dicts[1].text = <<"b">>
    /\ parsed_data[1][1].dicts[2].text = <<"a">>

\* the tags of the output made of the first line's instances of a name
OutputOf(name) ==
    LET Made(id) == OriginOf(id) = 1 /\ objects[id].type = get_tag_type(name)
    IN SelectSeq(tags, Made)

\* C34: when a name occurs k >= 2 times on a line, each time without the
\* continued marker, the returned list has k tags for them, the i-th with the
\* text of the i-th instance, and they are k different objects.
C34_DistinctInstancesStayDistinct ==
    tpc.phase = "done" =>
       \A name \in TagNames :
          LET given == InstancesOf(name)
              out == OutputOf(name)
          IN (/\ Len(given) >= 2
              /\ \A j \in 1..Len(given) : "continued" \notin given[j].props.has)
             => /\ Len(out) = Len(given)
                /\ \A j \in 1..Len(given) :
                      objects[out[j]].text
                         = CharsAt(text_lines[1], IntOf(given[j].props.offset) + 1,
                                   IntOf(given[j].props.offset)
                                      + IntOf(given[j].props.length) + 1)
                /\ \A i, j \in 1..Len(out) : out[i] = out[j] => i = j

\* ------------------------------------------------------------- the open tag

\* the merge loop is at a starts_tag instance while a tag is open
StartWhileOpen ==
    /\ tpc.phase = "merge"
    /\ tpc.idx < Len(preliminary_tags_of_region)
    /\ current_tag # 0
    /\ "starts_tag" \in objects[preliminary_tags_of_region[tpc.idx + 1]].has

\* C35: a starts_tag instance met while a tag is open becomes the open tag;
\* the pass puts nothing into the output and logs nothing, and a tag that
\* was open and not closed (it keeps its starts_tag key) is in no output.
C35_StartReplacesOpenTag ==
    [][/\ (MergeStep /\ StartWhileOpen) =>
             /\ current_tag' = preliminary_tags_of_region[tpc.idx + 1]
             /\ current_tag' # current_tag
             /\ "starts_tag" \in objects'[current_tag].has
             /\ tags' = tags
             /\ warnings' = warnings
       /\ \A k \in 1..Len(tags') : "starts_tag" \notin objects'[tags'[k]].has]_vars

\* three lines, starts_tag, starts_tag, ends_tag: the output is the one tag
\* 'd e' of the second start, the first is left out and nothing is logged
C35_Witness ==
    /\ tpc.phase = "done"
    /\ Len(objects) = 3
    /\ "starts_tag" \in objects[1].has
    /\ tags = <<2>>
    /\ objects[2].text = <<"d", " ", "e">>
    /\ warnings = <<>>

\* the merge loop is at a continues_tag or ends_tag instance while a tag is open
FragmentWhileOpen ==
    /\ tpc.phase = "merge"
    /\ tpc.idx < Len(preliminary_tags_of_region)
    /\ current_tag # 0
    /\ LET tag == objects[preliminary_tags_of_region[tpc.idx + 1]]
       IN /\ "starts_tag" \notin tag.has
          /\ tag.has \cap {"continues_tag", "ends_tag"} # {}

\* C36: a continues_tag or ends_tag instance leaves the type and the keys of
\* the open tag as the starts_tag instance gave them (but for the starts_tag
\* key itself), and its text is appended to the open tag only when its type
\* is the type of the open tag.
C36_MergedTagIsOfTheStart ==
    [][(MergeStep /\ FragmentWhileOpen) =>
          LET tag == objects[preliminary_tags_of_region[tpc.idx + 1]]
              open == objects[current_tag]
              merged == objects'[current_tag]
          IN /\ merged.type = open.type
             /\ merged.has \ {"starts_tag"} = open.has \ {"starts_tag"}
             /\ merged.text \in {open.text, JoinFragment(open.text, tag.text)}
             /\ merged.text # open.text => tag.type = open.type]_vars

\* ------------------------------------------------------------ chains of calls
\* One rule is run on a loaded document as find(p).categorize(k).remove();
\* the document is then loaded again and the rule is run as
\* find(p).remove().categorize(k).

ChainRule == script[1]

StartChain ==
    /\ pc.phase = "load"
    /\ text # <<>>
    /\ \E A \in Rules : A.remove /\ script' = <<A, A>>
    /\ pc' = [phase |-> "CR", rule |-> 1, op |-> "find"]
    /\ UNCHANGED <<engineVars, trace, tagVars>>

ChainFind ==
    /\ pc.phase \in {"CR", "RC"}
    /\ pc.op = "find"
    /\ Find(ChainRule.pattern)
    /\ pc' = [pc EXCEPT !.op = IF pc.phase = "CR" THEN "categorize" ELSE "remove"]
    /\ UNCHANGED <<script, trace, tagVars>>

ChainCategorize ==
    /\ pc.phase \in {"CR", "RC"}
    /\ pc.op = "categorize"
    /\ Categorize(KeyCategory(ChainRule.key))
    /\ pc' = IF pc.phase = "CR" THEN [pc EXCEPT !.op = "remove"]
             ELSE [pc EXCEPT !.phase = "done", !.op = "none"]
    /\ UNCHANGED <<script, trace, tagVars>>

ChainRemove ==
    /\ pc.phase \in {"CR", "RC"}
    /\ pc.op = "remove"
    /\ Remove
    /\ pc' = [pc EXCEPT !.op = IF pc.phase = "CR" THEN "reload" ELSE "categorize"]
    /\ UNCHANGED <<script, trace, tagVars>>

\* the end of the first chain: its annotations are kept aside and the same
\* files are parsed again, by a new parser in a new process
ChainReload ==
    /\ pc.op = "reload"
    /\ trace' = [trace EXCEPT !.first_data = parser_data]
    /\ text' = original_text
    /\ parser_data' = [e \in DOMAIN parser_data |-> EmptyData]
    /\ matches' = <<>>
    /\ raised' = "none"
    /\ pc' = [phase |-> "RC", rule |-> 1, op |-> "find"]
    /\ UNCHANGED <<files, scope, dictionary_matches, text_regions, original_text, script, tagVars>>

NextChains ==
    \/ pc.phase = "load" /\ AddNextFile /\ UNCHANGED <<ruleVars, tagVars>>
    \/ pc.phase = "load" /\ ParseText /\ UNCHANGED <<ruleVars, tagVars>>
    \/ StartChain
    \/ ChainFind
    \/ ChainCategorize
    \/ ChainRemove
    \/ ChainReload

SpecChains == Init /\ [][NextChains]_vars

\* C37: when find(p).remove().categorize(k) has returned, every matched
\* element holds under k group 1 of p's match in the text it had before the
\* remove, and the annotations are those find(p).categorize(k).remove() left.
C37_CategorizeStoresCaptureOfFind ==
    pc.phase = "done" =>
       /\ parser_data = trace.first_data
       /\ \A i \in 1..Len(matches) :
             LET e == ElementAt(text_regions, matches[i].fidx, matches[i].lidx)
             IN parser_data[e][ChainRule.key]
                   = Group(ChainRule.pattern,
                           MatchObject(ChainRule.pattern, original_text[e]), 1)

\* the second chain has stored a capture that its remove had taken out of the
\* text before
C37_Witness ==
    /\ pc.phase = "done"
    /\ parser_data = trace.first_data
    /\ \E i \in 1..Len(matches) :
          LET e == ElementAt(text_regions, matches[i].fidx, matches[i].lidx)
          IN /\ parser_data[e][ChainRule.key] \notin {Absent, None, <<>>}
             /\ ~Contains(text[e], parser_data[e][ChainRule.key])

\* ------------------------------------------------------------- remove, twice
\* find(p).remove().remove() on a document as loaded.

StartTwice ==
    /\ pc.phase = "load"
    /\ text # <<>>
    /\ \E pattern \in Patterns :
          script' = <<[pattern |-> pattern, key |-> "id", remove |-> TRUE]>>
    /\ pc' = [phase |-> "twice", rule |-> 1, op |-> "find"]
    /\ UNCHANGED <<engineVars, trace, tagVars>>

TwiceFind ==
    /\ pc.phase = "twice"
    /\ pc.op = "find"
    /\ Find(script[1].pattern)
    /\ pc' = [pc EXCEPT !.op = "remove"]
    /\ UNCHANGED <<script, trace, tagVars>>

FirstRemove ==
    /\ pc.phase = "twice"
    /\ pc.op = "remove"
    /\ Remove
    /\ pc' = [pc EXCEPT !.op = "remove again"]
    /\ UNCHANGED <<script, trace, tagVars>>

SecondRemove ==
    /\ pc.phase = "twice"
    /\ pc.op = "remove again"
    /\ Remove
    /\ pc' = [pc EXCEPT !.phase = "removed twice", !.op = "none"]
    /\ UNCHANGED <<script, trace, tagVars>>

NextTwice ==
    \/ pc.phase = "load" /\ AddNextFile /\ UNCHANGED <<ruleVars, tagVars>>
    \/ pc.phase = "load" /\ ParseText /\ UNCHANGED <<ruleVars, tagVars>>
    \/ StartTwice
    \/ TwiceFind
    \/ FirstRemove
    \/ SecondRemove

SpecTwice == Init /\ [][NextTwice]_vars

\* the text of the elements as the first remove() left it
AfterFirstRemove == RemoveLoop(original_text, text_regions, matches)

\* the pattern of a match of element e matches the text s
MatchesAgain(e, s) ==
    \E i \in 1..Len(matches) :
       /\ ElementAt(text_regions, matches[i].fidx, matches[i].lidx) = e
       /\ SearchPos(matches[i].pattern, s) # 0

\* C38, as claimed: the second remove() leaves the text of every element as
\* the first remove() left it.
C38_RemoveIdempotent ==
    pc.phase = "removed twice" => text = AfterFirstRemove

\* C38, amended: the second remove() leaves as the first left it the text of
\* every element that the pattern does not match again in that text.
C38_RemoveIdempotentUnlessMatchedAgain ==
    pc.phase = "removed twice" =>
       \A e \in 1..Len(text) :
          ~MatchesAgain(e, AfterFirstRemove[e]) => text[e] = AfterFirstRemove[e]

\* two removes have changed an element, and the second changed nothing
C38_Witness ==
    /\ pc.phase = "removed twice"
    /\ text = AfterFirstRemove
    /\ \E e \in 1..Len(text) :
          /\ text[e] # original_text[e]
          /\ ~MatchesAgain(e, AfterFirstRemove[e])

====
